---- MODULE Spec2Model ----
(***************************************************************************)
(* A model of indexed_list.py: IndexedList, its indexes (UniqueIndex,      *)
(* MultiIndex with KeyIndex / AttributeIndex key extraction), the          *)
(* BoundIndex read view and the Table specialisation.                      *)
(*                                                                         *)
(* A container instance is modelled, with a second instance of its type    *)
(* beside it and descriptor objects not yet declared on a type.  A Python  *)
(* object is a record                                                      *)
(* [id, val]: id is its identity (`is`), val its value (`==`).  A Python   *)
(* exception is a result record whose exc field is not "ok"; the state a   *)
(* handler had reached when it raised is the state the action leaves.      *)
(***************************************************************************)
EXTENDS Integers, Sequences, FiniteSets, TLC

\* Longest sequence the model lets the container grow to.
MaxLen == 3

\* Most items two instances of one type are let to hold together.
MaxBoth == 2

\* Python's None, as a value a field, a key or a default can have.
NONE == "None"

VARIABLES
    cls,     \* the container type: its declared indexes (static, per behaviour)
    list,    \* IndexedList._list
    dicts,   \* BoundIndex._dict of every declared index, by index name
    last,    \* the last call: its operation, what it raised, and in which index
    clean,   \* TRUE while every call made so far has returned normally
    arrivals, \* history, kept while clean: the present items in the order added
    bound,   \* Index.name of each descriptor object not yet declared on a type
    peer     \* a second instance of the same type: its _list and its _dicts

vars == <<cls, list, dicts, last, clean, arrivals, bound, peer>>

----------------------------------------------------------------------------
\* Results of a call that may raise.
Ok(v) == [exc |-> "ok", val |-> v]
Raise(e) == [exc |-> e]

\* Python's == on items; identity (`is`) is equality of the whole record.
Eq(a, b) == a.val = b.val

\* dict helpers: a dict is a function whose DOMAIN is its key set.
EmptyDict == [k \in {} |-> NONE]
dict_set(d, k, v) == [x \in DOMAIN d \cup {k} |-> IF x = k THEN v ELSE d[x]]
dict_del(d, k) == [x \in DOMAIN d \ {k} |-> d[x]]
dict_get(d, k, default) == IF k \in DOMAIN d THEN d[k] ELSE default

----------------------------------------------------------------------------
\* Index descriptors.  kind is the key extraction ("key": KeyIndex, "attr":
\* AttributeIndex / Column); unique tells UniqueIndex from MultiIndex;
\* default is KeyIndex.default; names is AttributeIndex._names (<<>> for None);
\* column tells a Column from a plain AttributeIndex.
UniqueKeyIndex(name) ==
    [name |-> name, kind |-> "key", unique |-> TRUE, default |-> NONE,
     names |-> <<>>, column |-> FALSE]
MultiKeyIndex(name, default) ==
    [name |-> name, kind |-> "key", unique |-> FALSE, default |-> default,
     names |-> <<>>, column |-> FALSE]
UniqueColumn(name) ==
    [name |-> name, kind |-> "attr", unique |-> TRUE, default |-> NONE,
     names |-> <<>>, column |-> TRUE]
MultiColumn(name) ==
    [name |-> name, kind |-> "attr", unique |-> FALSE, default |-> NONE,
     names |-> <<>>, column |-> TRUE]
UniqueAttributeIndex(name, names) ==
    [name |-> name, kind |-> "attr", unique |-> TRUE, default |-> NONE,
     names |-> names, column |-> FALSE]

\* Index.bind_name on a descriptor whose name is name (NONE while unbound):
\* [exc, name].
Index_bind_name_rebinds(name, new) == [exc |-> "ok", name |-> new]
Index_bind_name(name, new) ==
    IF name # NONE THEN [exc |-> "ValueError", name |-> name]
    ELSE [exc |-> "ok", name |-> new]

\* Descriptor objects created but not declared on any type yet, and the
\* attribute names a type declaration may give them.
Descriptors == {"index1", "index2", "index3"}
AttributeNames == {"name", "nickname", "brave", "name_nickname"}

\* Container types: the declared indexes in declaration order.
KnightList ==
    [table |-> FALSE,
     indexes |-> <<UniqueKeyIndex("name"), UniqueKeyIndex("nickname"),
                   MultiKeyIndex("brave", "True")>>]
\* A unique index declared before a multi index that has no default.
NameBraveList ==
    [table |-> FALSE,
     indexes |-> <<UniqueKeyIndex("name"), MultiKeyIndex("brave", NONE)>>]
\* The same indexes in the other declaration order.
BraveNameList ==
    [table |-> FALSE,
     indexes |-> <<MultiKeyIndex("brave", NONE), UniqueKeyIndex("name")>>]
\* Only a multi index: equal items can be present together.
BraveList ==
    [table |-> FALSE, indexes |-> <<MultiKeyIndex("brave", "True")>>]
KnightTable ==
    [table |-> TRUE,
     indexes |-> <<UniqueColumn("name"), MultiColumn("nickname"),
                   UniqueAttributeIndex("name_nickname", <<"name", "nickname">>)>>]

\* Only a unique index over two attributes; its items are objects that have
\* the fields as attributes.
PairList ==
    [table |-> FALSE,
     indexes |-> <<UniqueAttributeIndex("name_nickname", <<"name", "nickname">>)>>]

Classes == {KnightList, NameBraveList, BraveNameList, BraveList, KnightTable}

IndexNames(c) == {c.indexes[j].name : j \in 1..Len(c.indexes)}

\* TableMeta.__init__: the names of the Columns, in declaration order.
RECURSIVE ColumnNames(_)
ColumnNames(indexes) ==
    IF indexes = <<>> THEN <<>>
    ELSE IF Head(indexes).column
         THEN <<Head(indexes).name>> \o ColumnNames(Tail(indexes))
         ELSE ColumnNames(Tail(indexes))

\* Unindexed: a field of a Table's rows that no index is keyed on.
Unindexed(name) == [name |-> name, kind |-> "unindexed"]

\* The fields of a Table whose declarations include Unindexed ones: the names
\* of the Columns and of the Unindexed fields, in declaration order.
RECURSIVE FieldNames(_)
FieldNames(declared) ==
    IF declared = <<>> THEN <<>>
    ELSE IF Head(declared).kind = "unindexed" \/ Head(declared).column
         THEN <<Head(declared).name>> \o FieldNames(Tail(declared))
         ELSE FieldNames(Tail(declared))

\* IndexedListMeta.__init__: the indexes of a type are the declared Index
\* instances, in declaration order.
IsIndex(declared) == declared.kind # "unindexed"

\* test.py's KnightsWithDict: KnightTable with an Unindexed field declared
\* between the columns and the composite index.
KnightsWithDict ==
    LET declared == <<UniqueColumn("name"), MultiColumn("nickname"),
                      Unindexed("quotes"),
                      UniqueAttributeIndex("name_nickname", <<"name", "nickname">>)>>
    IN  [table |-> TRUE, indexes |-> SelectSeq(declared, IsIndex),
         fields |-> FieldNames(declared)]

\* cls.names: the field names of a Table's rows.
names_of(c) ==
    IF "fields" \in DOMAIN c THEN c.fields ELSE ColumnNames(c.indexes)

----------------------------------------------------------------------------
\* Inputs.  The items callers hand to an IndexedList: dicts, some without a
\* field; objects 2 and 5 are equal but distinct.
Objects ==
    { [id |-> 1, val |-> [name |-> "Galahad", nickname |-> "Pure"]],
      [id |-> 2, val |-> [name |-> "Bedevere", nickname |-> "Wise", brave |-> "True"]],
      [id |-> 3, val |-> [name |-> "Galahad", nickname |-> "Wise", brave |-> "False"]],
      [id |-> 4, val |-> [nickname |-> "Pure", brave |-> "True"]],
      [id |-> 5, val |-> [name |-> "Bedevere", nickname |-> "Wise", brave |-> "True"]] }

\* The raw value sequences callers hand to a Table; the last two have a value
\* too few and a value too many.
RawRows ==
    { <<"Galahad", "Pure">>, <<"Robin", "Pure">>,
      <<NONE, "Strong">>, <<NONE, "Weak">>,
      <<"Galahad">>, <<"Robin", "Pure", "Brave">> }

\* The raw value sequences callers hand to a KnightsWithDict: rows that differ
\* in the unindexed field only, rows that agree in it only (one with None for
\* a name), and one with a value too few.
QuoteRows ==
    { <<"Galahad", "Pure", "Peril">>, <<"Galahad", "Pure", "">>,
      <<NONE, "Brave", "">>, <<NONE, "Brave">> }

\* A container with no unique index accepts everything: it is tried with
\* fewer objects, the two equal ones among them.
Inputs(c) ==
    IF c.table THEN (IF "fields" \in DOMAIN c THEN QuoteRows ELSE RawRows)
    ELSE IF \A j \in 1..Len(c.indexes) : ~c.indexes[j].unique
         THEN {o \in Objects : o.id \in {1, 2, 5}}
         ELSE Objects

\* The positions a call is tried with: every one in range, and one past each end.
Positions(l) == (-(Len(l) + 1))..(Len(l) + 1)

----------------------------------------------------------------------------
\* KeyIndex.process_item
KeyIndex_process_item(index, item) ==
    IF index.default # NONE
    THEN Ok(dict_get(item.val, index.name, index.default))
    ELSE IF index.name \in DOMAIN item.val
         THEN Ok(item.val[index.name])
         ELSE Raise("KeyError")

\* AttributeIndex.names
AttributeIndex_names(index) ==
    IF index.names # <<>> THEN index.names ELSE <<index.name>>

\* An AttributeIndex.process_item that keys on every field the item has.
AttributeIndex_process_item_whole(index, item) ==
    LET names == AttributeIndex_names(index)
    IN  IF \E j \in 1..Len(names) : names[j] \notin DOMAIN item.val
        THEN Raise("AttributeError")
        ELSE Ok(item.val)

\* An AttributeIndex.process_item that keys on the first named field alone.
AttributeIndex_process_item_first(index, item) ==
    LET names == AttributeIndex_names(index)
    IN  IF \E j \in 1..Len(names) : names[j] \notin DOMAIN item.val
        THEN Raise("AttributeError")
        ELSE Ok(item.val[names[1]])

\* AttributeIndex.process_item
AttributeIndex_process_item(index, item) ==
    LET names == AttributeIndex_names(index)
    IN  IF \E j \in 1..Len(names) : names[j] \notin DOMAIN item.val
        THEN Raise("AttributeError")
        ELSE LET result == [j \in 1..Len(names) |-> item.val[names[j]]]
             IN  Ok(IF Len(result) = 1 THEN result[1] ELSE result)

process_item(index, item) ==
    IF index.kind = "key"
    THEN KeyIndex_process_item(index, item)
    ELSE AttributeIndex_process_item(index, item)

\* Sequence.index (the mixin IndexedList inherits): the 0-based position of the
\* first item that is, or equals, value; ValueError when there is none.
Sequence_index(l, value) ==
    LET hits == {j \in 1..Len(l) : l[j] = value \/ Eq(l[j], value)}
    IN  IF hits = {} THEN Raise("ValueError")
        ELSE Ok((CHOOSE j \in hits : \A k \in hits : j <= k) - 1)

\* UniqueIndex.prepare_add; skip is <<>> for None and <<i>> for a position i.
UniqueIndex_prepare_add(index, d, l, item, skip) ==
    LET processed == process_item(index, item)
    IN  IF processed.exc # "ok" THEN processed
        ELSE IF processed.val \in DOMAIN d
             THEN LET pos == Sequence_index(l, d[processed.val])
                  IN  IF pos.exc # "ok" THEN pos
                      ELSE IF <<pos.val>> = skip THEN Ok(NONE)
                      ELSE Raise("ValueError")
             ELSE Ok(NONE)

\* MultiIndex.prepare_add
MultiIndex_prepare_add(index, d, l, item, skip) == Ok(TRUE)

prepare_add(index, d, l, item, skip) ==
    IF index.unique
    THEN UniqueIndex_prepare_add(index, d, l, item, skip)
    ELSE MultiIndex_prepare_add(index, d, l, item, skip)

\* UniqueIndex.add: the result's val is the new _dict.
UniqueIndex_add(index, d, item) ==
    LET processed == process_item(index, item)
    IN  IF processed.exc # "ok" THEN processed
        ELSE Ok(dict_set(d, processed.val, item))

\* A MultiIndex.add that starts the key's list afresh instead of appending.
MultiIndex_add_overwrites(index, d, item) ==
    LET key == process_item(index, item)
    IN  IF key.exc # "ok" THEN key
        ELSE Ok(dict_set(d, key.val, <<item>>))

\* MultiIndex.add
MultiIndex_add(index, d, item) ==
    LET key == process_item(index, item)
    IN  IF key.exc # "ok" THEN key
        ELSE Ok(dict_set(d, key.val, Append(dict_get(d, key.val, <<>>), item)))

add(index, d, item) ==
    IF index.unique THEN UniqueIndex_add(index, d, item)
    ELSE MultiIndex_add(index, d, item)

\* UniqueIndex.remove
UniqueIndex_remove(index, d, item) ==
    LET processed == process_item(index, item)
    IN  IF processed.exc # "ok" THEN processed
        ELSE IF processed.val \notin DOMAIN d THEN Raise("KeyError")
        ELSE Ok(dict_del(d, processed.val))

\* list.remove: drops the first element that is, or equals, item.
list_remove(s, item) ==
    LET pos == Sequence_index(s, item)
    IN  IF pos.exc # "ok" THEN pos
        ELSE Ok(SubSeq(s, 1, pos.val) \o SubSeq(s, pos.val + 2, Len(s)))

\* MultiIndex.remove
MultiIndex_remove(index, d, item) ==
    LET key == process_item(index, item)
    IN  IF key.exc # "ok" THEN key
        ELSE IF key.val \notin DOMAIN d THEN Raise("KeyError")
        ELSE LET removed == list_remove(d[key.val], item)
             IN  IF removed.exc # "ok" THEN removed
                 ELSE Ok(dict_set(d, key.val, removed.val))

remove(index, d, item) ==
    IF index.unique THEN UniqueIndex_remove(index, d, item)
    ELSE MultiIndex_remove(index, d, item)

\* BoundIndex.__getitem__
BoundIndex_getitem(d, key) ==
    IF key \in DOMAIN d THEN Ok(d[key]) ELSE Raise("KeyError")

\* BoundIndex.__len__
BoundIndex_len(d) == Cardinality(DOMAIN d)

\* BoundIndex.__iter__ (as the set of keys it yields)
BoundIndex_iter(d) == DOMAIN d

\* Index.process_result: the result as it is.
Index_process_result(result) == result

\* MultiIndex.process_result: iter(result), a one-pass iterator over the items,
\* not the list.
MultiIndex_process_result(result) == [kind |-> "iterator", obj |-> result.obj]

\* `container.<index>[key]` as a caller sees it: BoundIndex.__getitem__ hands
\* out the object held in _dict (the item of a unique index, the list of a
\* multi index); it does not pass it through process_result.
lookup(index, d, key) ==
    LET r == BoundIndex_getitem(d, key)
    IN  IF r.exc # "ok" THEN r
        ELSE Ok([kind |-> IF index.unique THEN "item" ELSE "list", obj |-> r.val])

----------------------------------------------------------------------------
\* The container.  self is [cls, list, dicts]; a call returns
\* [exc, by, list, dicts]: what it raised ("ok" for a normal return), the index
\* whose method raised ("" for the container itself), and the state it left.
Result(exc, by, l, ds) == [exc |-> exc, by |-> by, list |-> l, dicts |-> ds]

\* IndexedList._check: [exc, by].
RECURSIVE IndexedList_check(_, _, _, _, _)
IndexedList_check(indexes, ds, l, value, skip) ==
    IF indexes = <<>> THEN [exc |-> "ok", by |-> ""]
    ELSE LET index == Head(indexes)
             r == prepare_add(index, ds[index.name], l, value, skip)
         IN  IF r.exc # "ok" THEN [exc |-> r.exc, by |-> index.name]
             ELSE IndexedList_check(Tail(indexes), ds, l, value, skip)

\* IndexedList._add_to_indexes: [exc, by, dicts]; the indexes before the one
\* that raised have been written.
RECURSIVE IndexedList_add_to_indexes(_, _, _)
IndexedList_add_to_indexes(indexes, ds, value) ==
    IF indexes = <<>> THEN [exc |-> "ok", by |-> "", dicts |-> ds]
    ELSE LET index == Head(indexes)
             r == add(index, ds[index.name], value)
         IN  IF r.exc # "ok" THEN [exc |-> r.exc, by |-> index.name, dicts |-> ds]
             ELSE IndexedList_add_to_indexes(
                      Tail(indexes), [ds EXCEPT ![index.name] = r.val], value)

\* IndexedList._remove_from_indexes: [exc, by, dicts].
RECURSIVE IndexedList_remove_from_indexes(_, _, _)
IndexedList_remove_from_indexes(indexes, ds, value) ==
    IF indexes = <<>> THEN [exc |-> "ok", by |-> "", dicts |-> ds]
    ELSE LET index == Head(indexes)
             r == remove(index, ds[index.name], value)
         IN  IF r.exc # "ok" THEN [exc |-> r.exc, by |-> index.name, dicts |-> ds]
             ELSE IndexedList_remove_from_indexes(
                      Tail(indexes), [ds EXCEPT ![index.name] = r.val], value)

\* Python list positions: l[i] is defined for -len <= i < len.
InRange(l, i) == -Len(l) <= i /\ i < Len(l)
\* The 1-based place of position i.
Place(l, i) == IF i < 0 THEN Len(l) + i + 1 ELSE i + 1

\* A list.insert that always adds at the end.
list_insert_at_end(l, i, value) == Append(l, value)

\* list.insert(i, value): a position past either end is clamped.
list_insert(l, i, value) ==
    LET j == IF i < 0 THEN (IF Len(l) + i < 0 THEN 0 ELSE Len(l) + i)
             ELSE (IF i > Len(l) THEN Len(l) ELSE i)
    IN  SubSeq(l, 1, j) \o <<value>> \o SubSeq(l, j + 1, Len(l))

\* del l[i], for i in range.
list_delitem(l, i) ==
    SubSeq(l, 1, Place(l, i) - 1) \o SubSeq(l, Place(l, i) + 1, Len(l))

\* IndexedList.__setitem__
IndexedList_setitem(self, i, value) ==
    LET indexes == self.cls.indexes
        checked == IndexedList_check(indexes, self.dicts, self.list, value, <<i>>)
    IN  IF checked.exc # "ok"
        THEN Result(checked.exc, checked.by, self.list, self.dicts)
        ELSE IF i >= Len(self.list) \/ ~InRange(self.list, i)
        THEN Result("IndexError", "", self.list, self.dicts)
        ELSE LET removed == IndexedList_remove_from_indexes(
                                indexes, self.dicts, self.list[Place(self.list, i)])
             IN  IF removed.exc # "ok"
                 THEN Result(removed.exc, removed.by, self.list, removed.dicts)
                 ELSE LET added == IndexedList_add_to_indexes(
                                       indexes, removed.dicts, value)
                      IN  IF added.exc # "ok"
                          THEN Result(added.exc, added.by, self.list, added.dicts)
                          ELSE Result("ok", "",
                                      [self.list EXCEPT ![Place(self.list, i)] = value],
                                      added.dicts)

\* An insert that writes the indexes before it validates.
IndexedList_insert_adds_first(self, i, value) ==
    LET indexes == self.cls.indexes
        added == IndexedList_add_to_indexes(indexes, self.dicts, value)
    IN  IF added.exc # "ok"
        THEN Result(added.exc, added.by, self.list, added.dicts)
        ELSE LET checked == IndexedList_check(
                                indexes, added.dicts, self.list, value, <<>>)
             IN  IF checked.exc # "ok"
                 THEN Result(checked.exc, checked.by, self.list, added.dicts)
                 ELSE Result("ok", "", list_insert(self.list, i, value), added.dicts)

\* IndexedList.insert
IndexedList_insert(self, i, value) ==
    LET indexes == self.cls.indexes
        checked == IndexedList_check(indexes, self.dicts, self.list, value, <<>>)
    IN  IF checked.exc # "ok"
        THEN Result(checked.exc, checked.by, self.list, self.dicts)
        ELSE LET added == IndexedList_add_to_indexes(indexes, self.dicts, value)
             IN  IF added.exc # "ok"
                 THEN Result(added.exc, added.by, self.list, added.dicts)
                 ELSE Result("ok", "", list_insert(self.list, i, value), added.dicts)

\* IndexedList.__delitem__
IndexedList_delitem(self, i) ==
    IF ~InRange(self.list, i)
    THEN Result("IndexError", "", self.list, self.dicts)
    ELSE LET removed == IndexedList_remove_from_indexes(
                            self.cls.indexes, self.dicts, self.list[Place(self.list, i)])
         IN  IF removed.exc # "ok"
             THEN Result(removed.exc, removed.by, self.list, removed.dicts)
             ELSE Result("ok", "", list_delitem(self.list, i), removed.dicts)

----------------------------------------------------------------------------
\* Table.  namedtuple._make gives a new row object: its identity is one no
\* live object has (identities are interchangeable, so the least is taken).
ItemsOf(index, d) ==
    IF index.unique THEN {d[k] : k \in DOMAIN d}
    ELSE UNION {{d[k][j] : j \in 1..Len(d[k])} : k \in DOMAIN d}
LiveIds(self) ==
    {self.list[j].id : j \in 1..Len(self.list)}
    \cup UNION {{x.id : x \in ItemsOf(self.cls.indexes[j],
                                       self.dicts[self.cls.indexes[j].name])} :
                j \in 1..Len(self.cls.indexes)}
FreshId(self) ==
    LET live == LiveIds(self)
    IN  CHOOSE n \in 1..(Cardinality(live) + 1) :
            n \notin live /\ \A m \in 1..(n - 1) : m \in live

\* A _make that takes the values there are: a field without a value is left
\* out of the row, a value without a field is dropped.
TupleClass_make_lenient(self, value) ==
    LET names == names_of(self.cls)
        filled == {j \in 1..Len(names) : j <= Len(value)}
    IN  Ok([id |-> FreshId(self),
            val |-> [n \in {names[j] : j \in filled} |->
                       value[CHOOSE j \in filled : names[j] = n]]])

\* TupleClass._make: TypeError unless the value has one entry per column.
TupleClass_make(self, value) ==
    LET names == names_of(self.cls)
    IN  IF Len(value) # Len(names) THEN Raise("TypeError")
        ELSE Ok([id |-> FreshId(self),
                 val |-> [n \in {names[j] : j \in 1..Len(names)} |->
                            value[CHOOSE j \in 1..Len(names) : names[j] = n]]])

\* Table.__setitem__
Table_setitem(self, i, value) ==
    LET made == TupleClass_make(self, value)
    IN  IF made.exc # "ok" THEN Result(made.exc, "", self.list, self.dicts)
        ELSE IndexedList_setitem(self, i, made.val)

\* Table.insert
Table_insert(self, i, value) ==
    LET made == TupleClass_make(self, value)
    IN  IF made.exc # "ok" THEN Result(made.exc, "", self.list, self.dicts)
        ELSE IndexedList_insert(self, i, made.val)

\* csv.writer (dialect 'excel') on one field: None is written as the empty
\* string, a string as it is (no field here needs quoting).
csv_field(v) == IF v = NONE THEN "" ELSE v
\* writer.writerow: the record of the fields' texts, in the order given.
csv_writerow(values) == [k \in 1..Len(values) |-> csv_field(values[k])]
\* A row as the tuple it is: its values in the order of the type's fields.
row_tuple(self, row) ==
    LET names == names_of(self.cls)
    IN  [k \in 1..Len(names) |-> row.val[names[k]]]

\* A Table.__str__ that writes the rows last to first.
Table_str_reversed(self) ==
    <<csv_writerow(names_of(self.cls))>> \o
    [j \in 1..Len(self.list) |->
        csv_writerow(row_tuple(self, self.list[Len(self.list) + 1 - j]))]

\* Table.__str__: the records written, the header first.
Table_str(self) ==
    <<csv_writerow(names_of(self.cls))>> \o
    [j \in 1..Len(self.list) |-> csv_writerow(row_tuple(self, self.list[j]))]

\* The calls as a caller makes them (dispatch on the container's type).
setitem(self, i, value) ==
    IF self.cls.table THEN Table_setitem(self, i, value)
    ELSE IndexedList_setitem(self, i, value)
insert(self, i, value) ==
    IF self.cls.table THEN Table_insert(self, i, value)
    ELSE IndexedList_insert(self, i, value)
delitem(self, i) == IndexedList_delitem(self, i)
\* MutableSequence.append
append(self, value) == insert(self, Len(self.list), value)

----------------------------------------------------------------------------
Self == [cls |-> cls, list |-> list, dicts |-> dicts]

\* The item a call stores for the value it is given: a Table makes a row of it.
Coerce(self, value) ==
    IF self.cls.table THEN TupleClass_make(self, value) ELSE Ok(value)

\* s without its first occurrence of the object x.
RemoveInstance(s, x) ==
    LET hits == {j \in 1..Len(s) : s[j] = x}
    IN  IF hits = {} THEN s
        ELSE LET j == CHOOSE j \in hits : \A k \in hits : j <= k
             IN  SubSeq(s, 1, j - 1) \o SubSeq(s, j + 1, Len(s))

\* IndexedList.__init__ / BoundIndex.__init__: an empty sequence and an empty
\* _dict per declared index.
Construct(c) ==
    /\ cls = c
    /\ list = <<>>
    /\ dicts = [n \in IndexNames(c) |-> EmptyDict]
    /\ last = [op |-> "init", exc |-> "ok", by |-> ""]
    /\ clean = TRUE
    /\ arrivals = <<>>
    /\ bound = [d \in Descriptors |-> NONE]
    /\ peer = [list |-> <<>>, dicts |-> [n \in IndexNames(c) |-> EmptyDict]]

Init == \E c \in Classes : Construct(c)

\* The call returns or raises with result r; a call that returned normally took
\* the items of gone out of the container and put those of new into it.
Return(op, r, gone, new) ==
    /\ list' = r.list
    /\ dicts' = r.dicts
    /\ last' = [op |-> op, exc |-> r.exc, by |-> r.by]
    /\ clean' = (clean /\ r.exc = "ok")
    /\ arrivals' = IF ~(clean /\ r.exc = "ok") THEN <<>>
                   ELSE (IF gone = <<>> THEN arrivals
                         ELSE RemoveInstance(arrivals, gone[1])) \o new
    /\ UNCHANGED <<cls, bound, peer>>

Stored(value) == LET c == Coerce(Self, value) IN IF c.exc = "ok" THEN <<c.val>> ELSE <<>>
At(i) == IF InRange(list, i) THEN <<list[Place(list, i)]>> ELSE <<>>

Insert ==
    /\ Len(list) < MaxLen
    /\ \E i \in Positions(list), value \in Inputs(cls) :
           Return("insert", insert(Self, i, value), <<>>, Stored(value))

AppendItem ==
    /\ Len(list) < MaxLen
    /\ \E value \in Inputs(cls) :
           Return("append", append(Self, value), <<>>, Stored(value))

SetItem ==
    \E i \in Positions(list), value \in Inputs(cls) :
        Return("set", setitem(Self, i, value), At(i), Stored(value))

DelItem ==
    \E i \in Positions(list) : Return("delete", delitem(Self, i), At(i), <<>>)

Next == Insert \/ AppendItem \/ SetItem \/ DelItem

Spec == Init /\ [][Next]_vars

\* A container whose only index is a unique index over a pair of fields.
InitComposite == Construct(PairList)

SpecComposite == InitComposite /\ [][Next]_vars

\* str(table)
Render ==
    /\ cls.table
    /\ last' = [op |-> "str", exc |-> "ok", by |-> "", out |-> Table_str(Self)]
    /\ UNCHANGED <<cls, list, dicts, clean, arrivals, bound, peer>>

NextTable == Next \/ Render

\* A Table with an Unindexed field.
InitUnindexed == Construct(KnightsWithDict)

SpecUnindexed == InitUnindexed /\ [][NextTable]_vars

\* A type declaration (IndexedListMeta.__init__) binds a descriptor to the
\* attribute name it is declared under.
BindName ==
    /\ \E d \in Descriptors, n \in AttributeNames :
           LET r == Index_bind_name(bound[d], n)
           IN  /\ bound' = [bound EXCEPT ![d] = r.name]
               /\ last' = [op |-> "bind_name", exc |-> r.exc, by |-> d]
    /\ UNCHANGED <<cls, list, dicts, clean, arrivals, peer>>

\* Descriptors not yet declared, beside a type that is.
InitBind == Construct(BraveList)

SpecBind == InitBind /\ [][BindName]_vars

\* Two instances of one type.  IndexedList.__init__ makes, for each declared
\* index, a BoundIndex of its own for the new instance, and BoundIndex.__init__
\* gives it a _dict of its own: the owner of a _dict is the pair of the
\* instance and the index name.
Instances == {"self", "peer"}
\* A _dict kept on the type's descriptor instead: one for all instances.
DictOwner_descriptor(inst, name) == <<"self", name>>
DictOwner(inst, name) == <<inst, name>>

\* The _dicts there are, by owner, and the ones an instance reaches.
Heap ==
    [o \in {DictOwner(k, n) : k \in Instances, n \in IndexNames(cls)} |->
        IF o = DictOwner("self", o[2]) THEN dicts[o[2]] ELSE peer.dicts[o[2]]]
DictsOf(heap, k) == [n \in IndexNames(cls) |-> heap[DictOwner(k, n)]]
Instance(k) ==
    [cls |-> cls, list |-> IF k = "self" THEN list ELSE peer.list,
     dicts |-> DictsOf(Heap, k)]

\* A call on instance k returns or raises with result r.
ReturnOn(k, op, r) ==
    LET heap == [o \in DOMAIN Heap |->
                    IF o = DictOwner(k, o[2]) THEN r.dicts[o[2]] ELSE Heap[o]]
    IN  /\ list' = IF k = "self" THEN r.list ELSE list
        /\ dicts' = DictsOf(heap, "self")
        /\ peer' = [list |-> IF k = "peer" THEN r.list ELSE peer.list,
                    dicts |-> DictsOf(heap, "peer")]
        /\ last' = [op |-> op, exc |-> r.exc, by |-> r.by, on |-> k]
        /\ clean' = (clean /\ r.exc = "ok")
        /\ UNCHANGED <<cls, arrivals, bound>>

InsertOn ==
    /\ Len(list) + Len(peer.list) < MaxBoth
    /\ \E k \in Instances, value \in Inputs(cls) :
       \E i \in Positions(Instance(k).list) :
           ReturnOn(k, "insert", insert(Instance(k), i, value))

SetItemOn ==
    \E k \in Instances, value \in Inputs(cls) :
    \E i \in Positions(Instance(k).list) :
        ReturnOn(k, "set", setitem(Instance(k), i, value))

DelItemOn ==
    \E k \in Instances :
    \E i \in Positions(Instance(k).list) :
        ReturnOn(k, "delete", delitem(Instance(k), i))

\* The peer is constructed anew: `peer = type(self)()`.
NewInstance ==
    /\ peer' = [list |-> <<>>, dicts |-> [n \in IndexNames(cls) |-> EmptyDict]]
    /\ last' = [op |-> "new", exc |-> "ok", by |-> "", on |-> "peer"]
    /\ UNCHANGED <<cls, list, dicts, clean, arrivals, bound>>

NextTwo == InsertOn \/ SetItemOn \/ DelItemOn \/ NewInstance

InitTwo == Construct(KnightList)

SpecTwo == InitTwo /\ [][NextTwo]_vars

\* Every kind of container: the list types, and for the Table the one with
\* every kind of field (its indexes are KnightTable's).
InitFrame ==
    \E c \in (Classes \ {KnightTable}) \cup {PairList, KnightsWithDict} :
        Construct(c)

SpecFrame == InitFrame /\ [][Next]_vars

\* A caller of a multi-index lookup changes what it was handed: `result.pop()`
\* on the object `container.<index>[key]` returned.  A list can be popped and
\* is the very object _dict holds under key; an iterator cannot.
PopResult ==
    /\ \E ix \in {cls.indexes[j] : j \in 1..Len(cls.indexes)} :
       \E key \in DOMAIN dicts[ix.name] :
           LET r == lookup(ix, dicts[ix.name], key)
           IN  /\ ~ix.unique
               /\ r.exc = "ok"
               /\ r.val.kind = "list"
               /\ r.val.obj # <<>>
               /\ dicts' = [dicts EXCEPT ![ix.name] =
                                dict_set(@, key, SubSeq(r.val.obj, 1, Len(r.val.obj) - 1))]
               /\ last' = [op |-> "result.pop", exc |-> "ok", by |-> ix.name]
    /\ UNCHANGED <<cls, list, clean, arrivals, bound, peer>>

NextLookup == Next \/ PopResult

\* A container with a multi index, with callers that also change
\* lookup results.
InitLookup == Construct(BraveList)

SpecLookup == InitLookup /\ [][NextLookup]_vars

----------------------------------------------------------------------------
\* Vocabulary of the properties.
Indexes == {cls.indexes[j] : j \in 1..Len(cls.indexes)}
UniqueIndexes == {ix \in Indexes : ix.unique}
MultiIndexes == {ix \in Indexes : ~ix.unique}
Present == {list[j] : j \in 1..Len(list)}
\* Key extraction succeeds for item on every declared index.
Extractable(item) == \A ix \in Indexes : process_item(ix, item).exc = "ok"
\* The inputs a call can be given whose stored item has every indexed field.
WellFormed ==
    {value \in Inputs(cls) :
        Coerce(Self, value).exc = "ok" /\ Extractable(Coerce(Self, value).val)}
\* Some present item has key k in index ix.
Holds(ix, items, k) ==
    \E x \in items : process_item(ix, x).exc = "ok" /\ process_item(ix, x).val = k
\* The lookup of item's key in index ix finds item (compared with ==, as Python's
\* `in` and assertEqual compare).
Found(ix, item) ==
    LET k == process_item(ix, item)
    IN  /\ k.exc = "ok"
        /\ LET r == BoundIndex_getitem(dicts[ix.name], k.val)
           IN  /\ r.exc = "ok"
               /\ IF ix.unique THEN Eq(r.val, item)
                  ELSE \E p \in 1..Len(r.val) : Eq(r.val[p], item)

\* C1: after any sequence of successful append/insert/set/delete calls, every
\* item in the sequence is found under its own key in every declared index:
\* a unique index yields it, a multi index yields a list that contains it.
C1_Consistency ==
    clean => \A j \in 1..Len(list) : \A ix \in Indexes : Found(ix, list[j])

\* A successful set has replaced an item of a two-item list that has two
\* unique indexes and a multi index.
C1_Witness ==
    /\ clean
    /\ cls = KnightList
    /\ Len(list) = 2
    /\ last.op = "set"

\* C2: in every reachable state no two items at different positions have the
\* same key in a unique index, and an append or insert of an item (with every
\* indexed field) whose key in some unique index a present item holds raises
\* ValueError.
C2_Uniqueness ==
    /\ \A ix \in UniqueIndexes : \A j1, j2 \in 1..Len(list) :
           (j1 # j2 /\ Extractable(list[j1]) /\ Extractable(list[j2]))
               => process_item(ix, list[j1]).val # process_item(ix, list[j2]).val
    /\ \A value \in WellFormed :
           (\E ix \in UniqueIndexes :
                Holds(ix, Present, process_item(ix, Coerce(Self, value).val).val))
               => /\ append(Self, value).exc = "ValueError"
                  /\ \A i \in Positions(list) : insert(Self, i, value).exc = "ValueError"

UniqueNames == {ix.name : ix \in UniqueIndexes}

\* C3: an append, insert or set that a unique index rejects (ValueError raised
\* by that index's prepare_add, whatever the indexes before it said) leaves the
\* sequence and every index's _dict as they were.
C3_RejectedIsNoOp ==
    [][(last'.exc = "ValueError" /\ last'.by \in UniqueNames
          /\ last'.op \in {"append", "insert", "set"})
         => (list' = list /\ dicts' = dicts)]_vars

\* A set was rejected by the second unique index after the first accepted it.
C3_Witness ==
    /\ cls = KnightList
    /\ last.op = "set"
    /\ last.exc = "ValueError"
    /\ last.by = "nickname"
    /\ Len(list) = 2

\* C4: set(i, item) and delete(i) with i outside the sequence raise IndexError,
\* for every item (with every indexed field) including one whose key a unique
\* index already holds, and leave the sequence and every index unchanged.
\* Stated of a container that only successful calls have touched, where no
\* earlier failure can be the cause of a violation.
C4_OutOfRange ==
    \A i \in Positions(list) :
        (clean /\ ~InRange(list, i)) =>
            /\ delitem(Self, i) = Result("IndexError", "", list, dicts)
            /\ \A value \in WellFormed :
                   LET r == setitem(Self, i, value)
                   IN  r.exc = "IndexError" /\ r.list = list /\ r.dicts = dicts

\* C5: an append, insert or set that fails because key extraction finds no
\* value (KeyError / AttributeError for an item that lacks an indexed field)
\* leaves the sequence and every index unchanged.
C5_MissingFieldIsNoOp ==
    \A value \in Inputs(cls) :
        (Coerce(Self, value).exc = "ok" /\ ~Extractable(Coerce(Self, value).val)) =>
            \A r \in {append(Self, value)}
                     \cup {insert(Self, i, value) : i \in Positions(list)}
                     \cup {setitem(Self, i, value) : i \in Positions(list)} :
                r.exc \in {"KeyError", "AttributeError"}
                    => (r.list = list /\ r.dicts = dicts)

\* C6: in every reachable state every item an index holds is in the sequence
\* (compared with ==), and after delete(i) the removed item's key is no longer
\* a key of any unique index (the lookup raises KeyError).
C6_NoStaleEntries ==
    /\ \A ix \in Indexes : \A x \in ItemsOf(ix, dicts[ix.name]) :
           \E j \in 1..Len(list) : Eq(list[j], x)
    /\ \A i \in Positions(list) :
           (InRange(list, i) /\ delitem(Self, i).exc = "ok") =>
               \A ix \in UniqueIndexes :
                   LET k == process_item(ix, list[Place(list, i)])
                   IN  k.exc = "ok" =>
                           BoundIndex_getitem(delitem(Self, i).dicts[ix.name],
                                              k.val).exc = "KeyError"

\* The key of item in unique index ix is held by no present item, save the
\* one at place p.
FreeBut(ix, item, p) ==
    \A j \in 1..Len(list) :
        (j # p /\ process_item(ix, list[j]).exc = "ok")
            => process_item(ix, list[j]).val # process_item(ix, item).val

\* C7: set(i, item) at a position 0 <= i < len succeeds when, in every unique
\* index, item's key is held by no present item or only by the item at i, and
\* raises ValueError when in some unique index an item at another position
\* holds it; after a successful set each unique index maps the key to the new
\* item, and the replaced item's key, if different, is no longer a key.
C7_SetInPlace ==
    \A i \in 0..(Len(list) - 1) : \A value \in WellFormed :
        LET item == Coerce(Self, value).val
            old == list[i + 1]
            r == setitem(Self, i, value)
        IN  IF \A ix \in UniqueIndexes : FreeBut(ix, item, i + 1)
            THEN /\ r.exc = "ok"
                 /\ r.list = [list EXCEPT ![i + 1] = item]
                 /\ \A ix \in UniqueIndexes :
                        LET k == process_item(ix, item).val
                            ko == process_item(ix, old)
                        IN  /\ BoundIndex_getitem(r.dicts[ix.name], k) = Ok(item)
                            /\ (ko.exc = "ok" /\ ko.val # k)
                                   => ko.val \notin BoundIndex_iter(r.dicts[ix.name])
            ELSE r.exc = "ValueError"

\* The items of s whose key in index ix is k, in the order of s.
RECURSIVE Sharing(_, _, _)
Sharing(ix, s, k) ==
    IF s = <<>> THEN <<>>
    ELSE IF process_item(ix, Head(s)) = Ok(k)
         THEN <<Head(s)>> \o Sharing(ix, Tail(s), k)
         ELSE Sharing(ix, Tail(s), k)
Vals(s) == [j \in 1..Len(s) |-> s[j].val]
KeysOf(ix, s) ==
    {process_item(ix, s[j]).val : j \in {p \in 1..Len(s) : process_item(ix, s[p]).exc = "ok"}}

\* C8: after any sequence of successful calls, the lookup result of a multi
\* index for a key lists the present items that share the key in the order in
\* which they were added to the container (items compared with ==).
C8_MultiOrder ==
    clean =>
        /\ \A x \in Present :
               Cardinality({j \in 1..Len(list) : list[j] = x})
                   = Cardinality({j \in 1..Len(arrivals) : arrivals[j] = x})
        /\ Len(arrivals) = Len(list)
        /\ \A ix \in MultiIndexes :
               \A k \in BoundIndex_iter(dicts[ix.name]) \cup KeysOf(ix, arrivals) :
                   Vals(dict_get(dicts[ix.name], k, <<>>))
                       = Vals(Sharing(ix, arrivals, k))

\* The keys a lookup is tried with.
LookupKeys == {"True", "False", NONE, "Pure", "Wise", "Strong", "Weak"}

\* C9: a multi-index lookup of a key no present item has returns an empty
\* sequence and does not raise.
C9_MultiLookupMiss ==
    \A ix \in MultiIndexes : \A k \in LookupKeys :
        ~Holds(ix, Present, k) => BoundIndex_getitem(dicts[ix.name], k) = Ok(<<>>)

\* C10: appending to a Table a row with None in a unique column succeeds
\* although a present row, different in another column, has None there too.
C10_NoneNotUnique ==
    cls.table =>
        \A value \in WellFormed :
            LET item == Coerce(Self, value).val
            IN  (/\ \E ix \in {u \in UniqueIndexes : u.column} :
                        /\ process_item(ix, item).val = NONE
                        /\ Holds(ix, Present, NONE)
                 /\ \A x \in Present : ~Eq(x, item))
                    => append(Self, value).exc = "ok"

\* C11: a change a caller makes to the result of a multi-index lookup alters no
\* index state (and so no later lookup): the result is not the index's own list.
C11_ResultIsReadOnly ==
    [][last'.op = "result.pop" => dicts' = dicts]_vars

\* C12: a unique index over several fields keys on the tuple of their values:
\* an insert is rejected exactly when a present item has equal values on all
\* the named fields (items agreeing on only some are accepted), and a lookup
\* by the tuple returns the present item that has those values.
HasFields(ix, item) ==
    \A j \in 1..Len(ix.names) : ix.names[j] \in DOMAIN item.val
SameOnAll(ix, a, b) ==
    \A j \in 1..Len(ix.names) : a.val[ix.names[j]] = b.val[ix.names[j]]
C12_CompositeKey ==
    \A ix \in {x \in UniqueIndexes : Len(x.names) > 1} :
        /\ \A value \in {v \in Inputs(cls) : HasFields(ix, v)}, i \in Positions(list) :
               LET r == insert(Self, i, value)
               IN  IF \E x \in Present : SameOnAll(ix, x, value)
                   THEN r.exc = "ValueError" /\ r.by = ix.name
                   ELSE r.exc = "ok"
        /\ \A x \in Present :
               LET r == lookup(ix, dicts[ix.name],
                               [j \in 1..Len(ix.names) |-> x.val[ix.names[j]]])
               IN  r.exc = "ok" /\ r.val.kind = "item" /\ Eq(r.val.obj, x)
C12_Witness ==
    /\ cls = PairList
    /\ Len(list) = 2
    /\ \E j, k \in 1..Len(list) :
           /\ j # k
           /\ list[j].val.name = list[k].val.name
           /\ list[j].val.nickname # list[k].val.nickname
    /\ last.op = "insert" /\ last.exc = "ValueError" /\ last.by = "name_nickname"

\* C13: append, insert and set on a Table with a raw value whose length is not
\* the number of schema fields raise the schema-mismatch error (TypeError)
\* before any index validation or commit step, whatever the position and
\* whatever the table holds: the sequence and every index stay as they were.
Malformed(self) ==
    {v \in Inputs(self.cls) : Len(v) # Len(names_of(self.cls))}
C13_SchemaMismatch ==
    cls.table =>
        \A value \in Malformed(Self), i \in Positions(list) :
            /\ insert(Self, i, value) = Result("TypeError", "", list, dicts)
            /\ setitem(Self, i, value) = Result("TypeError", "", list, dicts)
            /\ append(Self, value) = Result("TypeError", "", list, dicts)
C13_Witness ==
    /\ cls.table
    /\ Len(list) = 2
    /\ \E j \in 1..Len(list) : list[j].val.name = "Galahad"
    /\ last.op = "set" /\ last.exc = "TypeError"

\* C14: an Unindexed field of a Table takes its place in the row shape in
\* declaration order with the columns, its value is carried in the stored row
\* under its field name, and no index is keyed on it: every call is accepted
\* or rejected, and changes the sequence and the indexes, exactly as on the
\* table without the field given the values without it.
UnindexedNames(c) ==
    {n \in {c.fields[j] : j \in 1..Len(c.fields)} :
        \A k \in 1..Len(c.indexes) : ~(c.indexes[k].column /\ c.indexes[k].name = n)}
WithoutUnindexed(c) == [table |-> c.table, indexes |-> c.indexes]
StripRow(c, row) ==
    [id |-> row.id,
     val |-> [n \in DOMAIN row.val \ UnindexedNames(c) |-> row.val[n]]]
StripRaw(c, value) ==
    LET kept == SelectSeq([j \in 1..Len(c.fields) |-> j],
                          LAMBDA j : c.fields[j] \notin UnindexedNames(c))
    IN  [k \in 1..Len(kept) |-> value[kept[k]]]
StripSeq(c, l) == [j \in 1..Len(l) |-> StripRow(c, l[j])]
StripDicts(c, ds) ==
    [n \in DOMAIN ds |->
        LET ix == CHOOSE x \in {c.indexes[j] : j \in 1..Len(c.indexes)} : x.name = n
        IN  [k \in DOMAIN ds[n] |->
                IF ix.unique THEN StripRow(c, ds[n][k]) ELSE StripSeq(c, ds[n][k])]]
StripResult(c, r) ==
    Result(r.exc, r.by, StripSeq(c, r.list), StripDicts(c, r.dicts))
Stripped(self) ==
    [cls |-> WithoutUnindexed(self.cls), list |-> StripSeq(self.cls, self.list),
     dicts |-> StripDicts(self.cls, self.dicts)]
C15_WriteOnce ==
    [][last'.op = "bind_name" =>
          LET d == last'.by
          IN  /\ \A e \in Descriptors \ {d} : bound'[e] = bound[e]
              /\ IF bound[d] # NONE
                 THEN last'.exc = "ValueError" /\ bound'[d] = bound[d]
                 ELSE last'.exc = "ok" /\ bound'[d] \in AttributeNames]_vars
C15_Witness ==
    /\ last.op = "bind_name" /\ last.exc = "ValueError"
    /\ bound[last.by] # NONE
    /\ \E e \in Descriptors : bound[e] = NONE

C17_RemovesTheInstance ==
    clean => \A ix \in MultiIndexes : ItemsOf(ix, dicts[ix.name]) = Present

\* C18: index state belongs to the container instance: a newly constructed
\* instance has an empty sequence and empty indexes, and a call on one
\* instance changes neither the sequence nor any index of another instance of
\* the same type.
C18_PerInstance ==
    [][/\ last'.on = "self" => peer' = peer
       /\ last'.on = "peer" => list' = list /\ dicts' = dicts
       /\ last'.op = "new" =>
              /\ peer'.list = <<>>
              /\ \A n \in IndexNames(cls) : peer'.dicts[n] = EmptyDict]_vars
C18_Witness ==
    /\ last.op = "set" /\ last.exc = "ok" /\ last.on = "self"
    /\ Len(list) = 1 /\ Len(peer.list) = 1
    /\ peer.dicts # dicts

\* C19: on the sequence, a successful set(i, item) keeps the length and every
\* other position; a successful insert(i, item) makes the sequence one longer,
\* with the item at position i (at the end when i is past the end), the
\* items before it where they were and the items from it on one place
\* further; a successful delete(i) takes out the item at position i only.
Without(l, p) == SubSeq(l, 1, p - 1) \o SubSeq(l, p + 1, Len(l))
C19_SequenceFrame ==
    \A i \in Positions(list) :
        /\ \A value \in Inputs(cls) :
               LET set == setitem(Self, i, value)
                   ins == insert(Self, i, value)
                   item == Coerce(Self, value).val
               IN  /\ set.exc = "ok" =>
                          /\ Len(set.list) = Len(list)
                          /\ set.list[Place(list, i)] = item
                          /\ \A j \in 1..Len(list) \ {Place(list, i)} :
                                 set.list[j] = list[j]
                   /\ ins.exc = "ok" =>
                          /\ Len(ins.list) = Len(list) + 1
                          /\ \E p \in 1..Len(ins.list) :
                                 /\ ins.list[p] = item
                                 /\ Without(ins.list, p) = list
                                 /\ i >= 0 => p = (IF i > Len(list) THEN Len(list) ELSE i) + 1
        /\ LET del == delitem(Self, i)
           IN  del.exc = "ok" =>
                   del.list = Without(list, Place(list, i))
C19_Witness ==
    /\ last.op = "insert" /\ last.exc = "ok"
    /\ Len(list) = MaxLen
    /\ clean /\ arrivals # list

\* C20: on a non-empty container with a unique index, set(i, item) with a
\* negative i in range (-len <= i < 0) has the outcome of set(len + i, item):
\* the same result, the same sequence, the same indexes; in particular when
\* item has the unique key of the item it replaces.
C20_NegativeSet ==
    (clean /\ UniqueIndexes # {}) =>
        \A i \in (-Len(list))..(-1), value \in Inputs(cls) :
            setitem(Self, i, value) = setitem(Self, Len(list) + i, value)

====
